---- MODULE Spec2Model ----
(***************************************************************************)
(* A model of cly: the Parser of cly/parsers/parser.py (the registry of   *)
(* Arguments and Flags, the registration methods and the token scan of    *)
(* parse) and the option records of cly/utils.py.                         *)
(*                                                                         *)
(* A Python str is modelled as the sequence of its characters, each a      *)
(* one-character TLA+ string: "--ab" is <<"-", "-", "a", "b">>.            *)
(***************************************************************************)
EXTENDS Integers, Sequences, FiniteSets, TLC

VARIABLES
    options,        \* self._options: strict_mode and allow_unknown_args
    registry,       \* self._registry: name -> Argument or Flag
    required_args,  \* self._required_args: list of Arguments
    call,           \* the last registration call: its inputs and how it ended
    args,           \* parse: the token list being scanned
    n,              \* parse: the cursor (0-based, as in the code)
    tree,           \* parse: dest -> value
    flag_bound,     \* parse: whether the local name `flag` has been assigned
    status,         \* parse: "idle", "scanning", "returned" or "raised"
    raised,         \* parse: the rejection or exception that ended the call
    help            \* gen_help: its arguments, its locals and its position

vars == <<options, registry, required_args, call, args, n, tree, flag_bound,
          status, raised, help>>
regVars == <<registry, required_args, call>>
parseVars == <<args, n, tree, flag_bound, status, raised>>

----------------------------------------------------------------------------
(* Bounds of the model. *)

\* At most this many options are registered on one Parser.
MaxOptions == 2

\* The token lists given to parse hold at most this many tokens.
MaxTokens == 3

\* gen_help is followed for at most this many passes of its layout loop.
MaxLines == 12

----------------------------------------------------------------------------
(* Python values. *)

\* None. No character is the string "None", so None differs from every str,
\* the empty str <<>> included.
None == <<"None">>

Lower == {"a", "b", "c", "d", "e", "f", "g", "h", "i", "j", "k", "l", "m",
          "n", "o", "p", "q", "r", "s", "t", "u", "v", "w", "x", "y", "z"}
Upper == {"A", "B", "C", "D", "E", "F", "G", "H", "I", "J", "K", "L", "M",
          "N", "O", "P", "Q", "R", "S", "T", "U", "V", "W", "X", "Y", "Z"}
Digit == {"0", "1", "2", "3", "4", "5", "6", "7", "8", "9"}

\* The characters c with c.isalnum(), and those the regex class \w matches.
AlnumChar == Lower \cup Upper \cup Digit
WordChar == AlnumChar \cup {"_"}

\* bool(s) of an Optional[str]: None and "" are falsy.
truthy(s) == s # None /\ s # <<>>

\* s.startswith(prefix)
startswith(s, prefix) ==
    /\ Len(s) >= Len(prefix)
    /\ SubSeq(s, 1, Len(prefix)) = prefix

\* s.replace("-", "")
replace_hyphen(s) == SelectSeq(s, LAMBDA c : c # "-")

\* s.isalnum(): at least one character, and all of them alphanumeric.
isalnum(s) == s # <<>> /\ \A i \in DOMAIN s : s[i] \in AlnumChar

----------------------------------------------------------------------------
(* The option records of cly/utils.py. *)

Argument(long_name, description, dest, short_name, metavar, required, indefinite, value) ==
    [type |-> "Argument", long_name |-> long_name, description |-> description,
     dest |-> dest, short_name |-> short_name, metavar |-> metavar,
     required |-> required, indefinite |-> indefinite, value |-> value]

\* A Flag's value field (False) is never read or written by the Parser; it is
\* kept as the str "False" so that every value field holds a sequence.
Flag(long_name, description, dest, short_name) ==
    [type |-> "Flag", long_name |-> long_name, description |-> description,
     dest |-> dest, short_name |-> short_name, metavar |-> None,
     value |-> <<"False">>]

\* The options held by a registry (each is stored under one or two names).
Registered(reg) == {reg[k] : k \in DOMAIN reg}

\* reg[name] = obj
store(reg, name, obj) ==
    [k \in DOMAIN reg \cup {name} |-> IF k = name THEN obj ELSE reg[k]]

----------------------------------------------------------------------------
(* Registration: add_argument and add_flag. *)

\* The empty-name test that opens add_argument.
ArgumentNameEmpty(long_name, short_name) ==
    \/ ~(Len(long_name) > 0)
    \/ (short_name # None /\ ~(Len(short_name) > 0))

\* A redundancy check that looks at the long name only.
ArgumentRedundancy_LongOnly(reg, long_name, short_name) ==
    IF long_name \in DOMAIN reg THEN "InvalidLongName" ELSE "ok"

\* The redundancy checks of add_argument: "ok" or the exception raised.
ArgumentRedundancy(reg, long_name, short_name) ==
    IF long_name \in DOMAIN reg THEN "InvalidLongName"
    ELSE IF truthy(short_name) /\ short_name \in DOMAIN reg THEN "InvalidShortName"
    ELSE "ok"

\* A style check that takes the hyphens after the prefix for special
\* characters.
ArgumentLongStyle_NoHyphen(long_name) ==
    IF ~startswith(long_name, <<"-", "-">>) THEN "InvalidLongName"
    ELSE IF ~isalnum(SubSeq(long_name, 3, Len(long_name))) THEN "InvalidLongName"
    ELSE "ok"

\* The strict-mode style checks of add_argument on the long name.
ArgumentLongStyle(long_name) ==
    IF ~startswith(long_name, <<"-", "-">>) THEN "InvalidLongName"
    ELSE IF ~isalnum(replace_hyphen(long_name)) THEN "InvalidLongName"
    ELSE "ok"

\* A style check that does not look at the length of the short name.
ArgumentShortStyle_AnyLength(short_name) ==
    IF ~truthy(short_name) THEN "ok"
    ELSE IF ~startswith(short_name, <<"-">>) THEN "InvalidShortName"
    ELSE IF ~isalnum(replace_hyphen(short_name)) THEN "InvalidShortName"
    ELSE "ok"

\* The strict-mode style checks of add_argument on the short name.
ArgumentShortStyle(short_name) ==
    IF ~truthy(short_name) THEN "ok"
    ELSE IF ~startswith(short_name, <<"-">>) THEN "InvalidShortName"
    ELSE IF Len(short_name) # 2 THEN "InvalidShortName"
    ELSE IF ~isalnum(replace_hyphen(short_name)) THEN "InvalidShortName"
    ELSE "ok"

\* The checks with the redundancy checks moved before the empty-name test.
ArgumentChecks_RedundancyFirst(reg, strict, long_name, short_name) ==
    IF ArgumentRedundancy(reg, long_name, short_name) # "ok"
        THEN ArgumentRedundancy(reg, long_name, short_name)
    ELSE IF ArgumentNameEmpty(long_name, short_name) THEN "ValueError"
    ELSE IF strict /\ ArgumentLongStyle(long_name) # "ok"
        THEN ArgumentLongStyle(long_name)
    ELSE IF strict THEN ArgumentShortStyle(short_name)
    ELSE "ok"

\* The checks with the strict-mode style checks moved before the redundancy
\* checks.
ArgumentChecks_StyleFirst(reg, strict, long_name, short_name) ==
    IF ArgumentNameEmpty(long_name, short_name) THEN "ValueError"
    ELSE IF strict /\ ArgumentLongStyle(long_name) # "ok"
        THEN ArgumentLongStyle(long_name)
    ELSE IF strict /\ ArgumentShortStyle(short_name) # "ok"
        THEN ArgumentShortStyle(short_name)
    ELSE ArgumentRedundancy(reg, long_name, short_name)

\* The checks of add_argument in the order of the code: "ok" or the
\* exception raised.
ArgumentChecks(reg, strict, long_name, short_name) ==
    IF ArgumentNameEmpty(long_name, short_name) THEN "ValueError"
    ELSE IF ArgumentRedundancy(reg, long_name, short_name) # "ok"
        THEN ArgumentRedundancy(reg, long_name, short_name)
    ELSE IF strict /\ ArgumentLongStyle(long_name) # "ok"
        THEN ArgumentLongStyle(long_name)
    ELSE IF strict THEN ArgumentShortStyle(short_name)
    ELSE "ok"

\* A registration that stores the long name before it checks the short name.
RegistryAfter_StoreFirst(reg, err, obj) ==
    IF err = "InvalidShortName" THEN store(reg, obj.long_name, obj)
    ELSE IF err # "ok" THEN reg
    ELSE IF truthy(obj.short_name)
        THEN store(store(reg, obj.long_name, obj), obj.short_name, obj)
    ELSE store(reg, obj.long_name, obj)

\* The registry after add_argument / add_flag: an exception leaves before any store.
RegistryAfter(reg, err, obj) ==
    IF err # "ok" THEN reg
    ELSE IF truthy(obj.short_name)
        THEN store(store(reg, obj.long_name, obj), obj.short_name, obj)
    ELSE store(reg, obj.long_name, obj)

\* The outstanding-required list after add_argument.
RequiredAfter(req, err, obj) ==
    IF err = "ok" /\ obj.required THEN Append(req, obj) ELSE req

\* required=not default: the empty str taken for an absent default.
RequiredOf_Falsy(default) == ~truthy(default)

\* required=default is None
RequiredOf(default) == default = None

----------------------------------------------------------------------------
(* The spec strings of add_arg and flag. re.match anchors the pattern at   *)
(* the start of the string only; text after the match is ignored.  The     *)
(* strings of the model hold no newline, so `.` matches every character.   *)

\* [a-zA-Z0-9\-_], the characters of <long-name> and <short-name>
NameChar == AlnumChar \cup {"-", "_"}
\* [\w\-_], the characters of <metavar>
MetavarChar == WordChar \cup {"-", "_"}
\* [a-zA-Z], the characters of <indefinite>
LetterChar == Lower \cup Upper

\* The length of the longest run of characters of class C in s from index i
\* on (what a greedy C+ or C* takes there).
RECURSIVE Run(_, _, _)
Run(s, i, C) ==
    IF i > Len(s) \/ s[i] \notin C THEN 0 ELSE 1 + Run(s, i + 1, C)

\* s[i:i+len(lit)] == lit
At(s, i, lit) ==
    /\ i + Len(lit) - 1 <= Len(s)
    /\ SubSeq(s, i, i + Len(lit) - 1) = lit

\* The index of the `]` that closes the description opened at index b:
\* .+ is greedy, so it is the last `]` of the string that has at least one
\* character between it and the `[` and no backslash right before it; 0 if
\* there is none.
DescriptionEnd(s, b) ==
    LET ends == {e \in (b + 2)..Len(s) : s[e] = "]" /\ s[e - 1] # "\\"}
    IN  IF ends = {} THEN 0 ELSE CHOOSE e \in ends : \A f \in ends : f <= e

\* "(?P<long_name>...)( (?P<short_name>...))? (?P<description>\[.+(?<!\\)\])":
\* the part of SPEC_RE that add_arg and flag share.  last is the index of the
\* last character matched.
SpecHead(s) ==
    LET L == Run(s, 1, NameChar)
        M == Run(s, L + 2, NameChar)
        withShort == L > 0 /\ At(s, L + 1, <<" ">>) /\ M > 0
        b == IF withShort THEN L + M + 3 ELSE L + 2
        e == DescriptionEnd(s, b)
    IN  IF L > 0 /\ At(s, b - 1, <<" ", "[">>) /\ e > 0
        THEN [ok |-> TRUE, long_name |-> SubSeq(s, 1, L),
              short_name |-> IF withShort THEN SubSeq(s, L + 2, L + M + 1) ELSE None,
              description |-> SubSeq(s, b, e), last |-> e]
        ELSE [ok |-> FALSE, long_name |-> None, short_name |-> None,
              description |-> None, last |-> 0]

\* "(, (?P<metavar>[\w\-_]+))?(, (?P<indefinite>[a-zA-Z]+)(, (?P<default>.+))?)?":
\* the optional fields after the description, matched from index p on.  Each
\* group is greedy and nothing after it has to match, so a group that can
\* match does.
SpecTail(s, p) ==
    LET V == IF At(s, p, <<",", " ">>) THEN Run(s, p + 2, MetavarChar) ELSE 0
        q == IF V > 0 THEN p + 2 + V ELSE p
        I == IF At(s, q, <<",", " ">>) THEN Run(s, q + 2, LetterChar) ELSE 0
        r == q + 2 + I
        hasDefault == I > 0 /\ At(s, r, <<",", " ">>) /\ Len(s) >= r + 2
    IN  [metavar |-> IF V > 0 THEN SubSeq(s, p + 2, p + 1 + V) ELSE None,
         indefinite |-> IF I > 0 THEN SubSeq(s, q + 2, q + 1 + I) ELSE None,
         default |-> IF hasDefault THEN SubSeq(s, r + 2, Len(s)) ELSE None]

\* str(x).lower() == "true"
IsTrueText(x) ==
    /\ x # None
    /\ Len(x) = 4
    /\ x[1] \in {"t", "T"} /\ x[2] \in {"r", "R"}
    /\ x[3] \in {"u", "U"} /\ x[4] \in {"e", "E"}

\* s.replace(old, new) for a two-character old and a one-character new.
RECURSIVE replace2(_, _, _)
replace2(s, old, new) ==
    IF Len(s) < 2 THEN s
    ELSE IF SubSeq(s, 1, 2) = old
        THEN <<new>> \o replace2(SubSeq(s, 3, Len(s)), old, new)
    ELSE <<s[1]>> \o replace2(Tail(s), old, new)

\* An extraction that removes the enclosing brackets and keeps the escapes.
Unbracket_KeepEscapes(description) ==
    SubSeq(description, 2, Len(description) - 1)

\* description[1:-1].replace("\\[", "[").replace("\\]", "]")
Unbracket(description) ==
    replace2(replace2(SubSeq(description, 2, Len(description) - 1),
                      <<"\\", "[">>, "["),
             <<"\\", "]">>, "]")

----------------------------------------------------------------------------
(* The registration methods as actions.  No registration runs while parse *)
(* is scanning: the library is single-threaded and synchronous.            *)

\* The record kept of the last registration call.  ret is <<the returned
\* option>>, or <<>> when the call raised.
Call(op, spec, long_name, short_name, default, err, obj) ==
    [op |-> op, spec |-> spec, long_name |-> long_name, short_name |-> short_name,
     default |-> default, err |-> err,
     ret |-> IF err = "ok" THEN <<obj>> ELSE <<>>]

NoCall == [op |-> "none", spec |-> None, long_name |-> None, short_name |-> None,
           default |-> None, err |-> "ok", ret |-> <<>>]

\* The model registers at most MaxOptions options; a call that raises is
\* always possible.
Room(err) == err # "ok" \/ Cardinality(Registered(registry)) < MaxOptions

\* The body of add_argument, entered by add_argument itself (op, spec =
\* "add_argument", None) or through add_arg.
AddArgumentBody(op, spec, long_name, description, dest, short_name, metavar, indefinite, default) ==
    LET err == ArgumentChecks(registry, options.strict_mode, long_name, short_name)
        obj == Argument(long_name, description, dest, short_name, metavar,
                        RequiredOf(default), indefinite, default)
    IN  /\ Room(err)
        /\ registry' = RegistryAfter(registry, err, obj)
        /\ required_args' = RequiredAfter(required_args, err, obj)
        /\ call' = Call(op, spec, long_name, short_name, default, err, obj)

\* The checks of add_flag, which repeat those of add_argument line by line.
FlagChecks(reg, strict, long_name, short_name) ==
    IF ~(Len(long_name) > 0) \/ (short_name # None /\ ~(Len(short_name) > 0))
        THEN "ValueError"
    ELSE IF long_name \in DOMAIN reg THEN "InvalidLongName"
    ELSE IF truthy(short_name) /\ short_name \in DOMAIN reg THEN "InvalidShortName"
    ELSE IF ~strict THEN "ok"
    ELSE IF ~startswith(long_name, <<"-", "-">>) THEN "InvalidLongName"
    ELSE IF ~isalnum(replace_hyphen(long_name)) THEN "InvalidLongName"
    ELSE IF ~truthy(short_name) THEN "ok"
    ELSE IF ~startswith(short_name, <<"-">>) THEN "InvalidShortName"
    ELSE IF Len(short_name) # 2 THEN "InvalidShortName"
    ELSE IF ~isalnum(replace_hyphen(short_name)) THEN "InvalidShortName"
    ELSE "ok"

\* The body of add_flag, entered by add_flag itself or through flag.
AddFlagBody(op, spec, long_name, description, dest, short_name) ==
    LET err == FlagChecks(registry, options.strict_mode, long_name, short_name)
        obj == Flag(long_name, description, dest, short_name)
    IN  /\ Room(err)
        /\ registry' = RegistryAfter(registry, err, obj)
        /\ required_args' = required_args
        /\ call' = Call(op, spec, long_name, short_name, None, err, obj)

\* A spec that SPEC_RE does not match: raise Exception("Invalid spec provided").
InvalidSpec(op, spec) ==
    /\ registry' = registry
    /\ required_args' = required_args
    /\ call' = Call(op, spec, None, None, None, "Exception", None)

\* The host program is between two calls of the Parser.
Idle == status = "idle" /\ call.op = "none"

add_argument(long_name, description, dest, short_name, metavar, indefinite, default) ==
    /\ Idle
    /\ AddArgumentBody("add_argument", None, long_name, description, dest,
                       short_name, metavar, indefinite, default)
    /\ UNCHANGED <<options, parseVars, help>>

add_flag(long_name, description, dest, short_name) ==
    /\ Idle
    /\ AddFlagBody("add_flag", None, long_name, description, dest, short_name)
    /\ UNCHANGED <<options, parseVars, help>>

add_arg(spec, dest) ==
    /\ Idle
    /\ LET head == SpecHead(spec)
           tail == SpecTail(spec, head.last + 1)
       IN  IF ~head.ok THEN InvalidSpec("add_arg", spec)
           ELSE AddArgumentBody("add_arg", spec, head.long_name,
                                Unbracket(head.description), dest, head.short_name,
                                tail.metavar, IsTrueText(tail.indefinite),
                                tail.default)
    /\ UNCHANGED <<options, parseVars, help>>

flag(spec, dest) ==
    /\ Idle
    /\ LET head == SpecHead(spec)
       IN  IF ~head.ok THEN InvalidSpec("flag", spec)
           ELSE AddFlagBody("flag", spec, head.long_name,
                            Unbracket(head.description), dest, head.short_name)
    /\ UNCHANGED <<options, parseVars, help>>

----------------------------------------------------------------------------
(* parse.  The scan is modelled one iteration of its while loop at a time: *)
(* parse enters the call, parse_iteration runs one pass of the loop body,  *)
(* parse_return leaves the loop.  The locals of one pass are the record    *)
(* [n, tree, req, flag_bound, raised]; req is self._required_args.         *)

\* The values of the result tree: True, a str, a list of str.
TrueValue == [type |-> "bool", val |-> <<>>]
StrValue(token) == [type |-> "str", val |-> <<token>>]
ListValue(tokens) == [type |-> "list", val |-> tokens]

\* The ways a call of parse ends other than by returning the tree: the three
\* reasons of reject (which prints and raises SystemExit), and the exceptions
\* that escape from the body.
Rejections == {"MissingValue", "MisplacedArgumentInCluster", "UnrecognizedOption"}
Crashes == {"ValueError", "UnboundLocalError"}

\* list.remove(obj): the list without the first element equal to obj.
RECURSIVE remove(_, _)
remove(list, obj) ==
    IF list = <<>> THEN <<>>
    ELSE IF Head(list) = obj THEN Tail(list)
    ELSE <<Head(list)>> \o remove(Tail(list), obj)

InList(list, obj) == \E i \in DOMAIN list : list[i] = obj

\* resolve(obj, value): list.remove raises ValueError when obj is not in the
\* list; the assignment to tree has happened by then.
resolve(st, obj, value) ==
    LET st1 == [st EXCEPT !.tree = store(st.tree, obj.dest, value)]
    IN  IF obj.type = "Argument" /\ obj.required
        THEN IF InList(st.req, obj)
             THEN [st1 EXCEPT !.req = remove(st.req, obj)]
             ELSE [st1 EXCEPT !.raised = "ValueError"]
        ELSE st1

\* reject(reason, more_help): print, then raise SystemExit.
reject(st, reason) == [st EXCEPT !.raised = reason]

\* The tokens an indefinite Argument collects: those of args[n + 1:] before
\* the first that is a key of the registry.  i is the 1-based index of the
\* first candidate.
RECURSIVE Collect(_, _, _)
Collect(reg, tokens, i) ==
    IF i > Len(tokens) \/ tokens[i] \in DOMAIN reg THEN <<>>
    ELSE <<tokens[i]>> \o Collect(reg, tokens, i + 1)

\* The value consumption of an Argument named by the token at the cursor
\* (or by the last character of a cluster), then resolve.
TakeValue(reg, tokens, st, obj) ==
    IF obj.indefinite
    THEN LET value == Collect(reg, tokens, st.n + 2)
             st1 == [st EXCEPT !.n = st.n + Len(value)]
         IN  IF value = <<>> THEN reject(st1, "MissingValue")
             ELSE resolve(st1, obj, ListValue(value))
    ELSE LET st1 == [st EXCEPT !.n = st.n + 1]
             present == st1.n < Len(tokens)
             value == IF present THEN tokens[st1.n + 1] ELSE <<>>
         IN  IF ~present \/ value = <<>> \/ startswith(value, <<"-">>)
                \/ startswith(value, <<"-", "-">>)
             THEN reject(st1, "MissingValue")
             ELSE resolve(st1, obj, StrValue(value))

\* The branch `if arg in self._registry`.
ExactBranch(reg, tokens, st, arg) ==
    IF reg[arg].type = "Flag" THEN resolve(st, reg[arg], TrueValue)
    ELSE TakeValue(reg, tokens, st, reg[arg])

\* re.match("[\w\-_]+=.+", arg)
KeyValueMatch(arg) ==
    LET k == Run(arg, 1, MetavarChar)
    IN  k > 0 /\ At(arg, k + 1, <<"=">>) /\ Len(arg) >= k + 2

\* arg.split("="): the pieces between the `=` characters.
RECURSIVE split(_)
split(s) ==
    LET k == Run(s, 1, {c \in {s[i] : i \in DOMAIN s} : c # "="})
    IN  IF k = Len(s) THEN <<s>>
        ELSE <<SubSeq(s, 1, k)>> \o split(SubSeq(s, k + 2, Len(s)))

\* The branch of `<name>=<value>` tokens: unpacking the split into two names
\* raises ValueError unless it has exactly two pieces.
KeyValueBranch(reg, st, arg) ==
    LET pieces == split(arg)
    IN  IF Len(pieces) # 2 THEN [st EXCEPT !.raised = "ValueError"]
        ELSE IF pieces[1] \in DOMAIN reg
            THEN resolve(st, reg[pieces[1]], StrValue(pieces[2]))
        ELSE st

\* re.match("-\w+", arg)
ClusterMatch(arg) == At(arg, 1, <<"-">>) /\ Run(arg, 2, WordChar) > 0

\* The loop `for flag in flags` from the i-th character of flags on; name is
\* the loop's `flag` once it is prefixed with `-`.
RECURSIVE ClusterLoop(_, _, _, _, _, _)
ClusterLoop(reg, allow_unknown, tokens, st, flags, i) ==
    IF i > Len(flags) \/ st.raised # "none" THEN st
    ELSE LET name == <<"-", flags[i]>>
             st0 == [st EXCEPT !.flag_bound = TRUE]
             st1 == IF name \in DOMAIN reg
                    THEN IF reg[name].type = "Flag"
                         THEN resolve(st0, reg[name], TrueValue)
                         ELSE IF flags[i] = flags[Len(flags)]
                         THEN TakeValue(reg, tokens, st0, reg[name])
                         ELSE reject(st0, "MisplacedArgumentInCluster")
                    ELSE IF ~allow_unknown THEN reject(st0, "UnrecognizedOption")
                    ELSE st0
         IN  ClusterLoop(reg, allow_unknown, tokens, st1, flags, i + 1)

\* The last branch: reject names the local `flag`, which is unbound unless a
\* cluster has been scanned earlier in this call.
UnknownBranch(st) ==
    IF st.flag_bound THEN reject(st, "UnrecognizedOption")
    ELSE [st EXCEPT !.raised = "UnboundLocalError"]

\* A pass without the closing `n += 1`.
Iteration_NoAdvance(opts, reg, tokens, st) ==
    LET arg == tokens[st.n + 1]
    IN  IF arg \in DOMAIN reg THEN ExactBranch(reg, tokens, st, arg)
        ELSE IF KeyValueMatch(arg) THEN KeyValueBranch(reg, st, arg)
        ELSE IF opts.strict_mode /\ ClusterMatch(arg)
            THEN ClusterLoop(reg, opts.allow_unknown_args, tokens, st, Tail(arg), 1)
        ELSE IF ~opts.allow_unknown_args THEN UnknownBranch(st)
        ELSE st

\* One pass of `while n < len(args)`, the closing `n += 1` included.
Iteration(opts, reg, tokens, st) ==
    LET arg == tokens[st.n + 1]
        st1 == IF arg \in DOMAIN reg THEN ExactBranch(reg, tokens, st, arg)
               ELSE IF KeyValueMatch(arg) THEN KeyValueBranch(reg, st, arg)
               ELSE IF opts.strict_mode /\ ClusterMatch(arg)
                   THEN ClusterLoop(reg, opts.allow_unknown_args, tokens, st,
                                    Tail(arg), 1)
               ELSE IF ~opts.allow_unknown_args THEN UnknownBranch(st)
               ELSE st
    IN  IF st1.raised # "none" THEN st1 ELSE [st1 EXCEPT !.n = st1.n + 1]

\* parse(args): tree = {}, n = 0.
parse(tokens) ==
    /\ Idle
    /\ args' = tokens
    /\ n' = 0
    /\ tree' = <<>>
    /\ flag_bound' = FALSE
    /\ status' = "scanning"
    /\ raised' = "none"
    /\ UNCHANGED <<options, registry, required_args, call, help>>

parse_iteration ==
    /\ status = "scanning"
    /\ n < Len(args)
    /\ \E st \in {Iteration(options, registry, args,
                          [n |-> n, tree |-> tree, req |-> required_args,
                           flag_bound |-> flag_bound, raised |-> "none"])} :
        /\ n' = st.n
        /\ tree' = st.tree
        /\ required_args' = st.req
        /\ flag_bound' = st.flag_bound
        /\ raised' = st.raised
        /\ status' = IF st.raised = "none" THEN "scanning" ELSE "raised"
    /\ UNCHANGED <<options, registry, call, args, help>>

\* The loop is over: return tree.
parse_return ==
    /\ status = "scanning"
    /\ ~(n < Len(args))
    /\ status' = "returned"
    /\ UNCHANGED <<options, registry, required_args, call, args, n, tree,
                   flag_bound, raised, help>>

\* The whole of `while n < len(args)`: the locals when the loop is left, by
\* its condition or by a rejection or an exception.
RECURSIVE RunParse(_, _, _, _)
RunParse(opts, reg, tokens, st) ==
    IF st.raised # "none" \/ ~(st.n < Len(tokens)) THEN st
    ELSE RunParse(opts, reg, tokens, Iteration(opts, reg, tokens, st))

\* The locals on entry to parse, with req the outstanding-required list.
EnterParse(req) ==
    [n |-> 0, tree |-> <<>>, req |-> req, flag_bound |-> FALSE, raised |-> "none"]

----------------------------------------------------------------------------
(* gen_help of cly/utils.py.  A width argument x is modelled by the        *)
(* integer 10 * x, which keeps one decimal place: 12.4 is 124, 0.4 is 4.   *)
(* The layout loop is modelled one pass at a time: gen_help enters the     *)
(* call, gen_help_pass runs one pass of the loop body, gen_help_return     *)
(* leaves the loop.                                                         *)

\* No call of gen_help is under way.  During a call, given holds the two
\* width arguments as they were passed, left_width and right_width the
\* rounded widths.
NoHelp ==
    [status |-> "idle", inst |-> None, given |-> <<0, 0>>,
     left_width |-> 0, right_width |-> 0,
     left_column |-> <<>>, right_column |-> <<>>, help_str |-> <<>>]

\* round(x) of a number with one decimal place, given as tenths: to the
\* nearest integer, a half to the even neighbour.
round(tenths) ==
    LET q == tenths \div 10
        r == tenths % 10
    IN  IF r < 5 THEN q
        ELSE IF r > 5 THEN q + 1
        ELSE IF q % 2 = 0 THEN q ELSE q + 1

\* round(left_width or os.get_terminal_size().columns * 0.3)
LeftWidth(left_width, columns) ==
    round(IF left_width # 0 THEN left_width ELSE columns * 3)

\* round(right_width or (os.get_terminal_size().columns - left_width - 2)),
\* where left_width is the rounded one.
RightWidth(right_width, columns, left) ==
    round(IF right_width # 0 THEN right_width ELSE (columns - left - 2) * 10)

\* The index at which the slices s[:k] and s[k:] cut a str.
SliceIndex(s, k) ==
    IF k >= 0 THEN (IF k < Len(s) THEN k ELSE Len(s))
    ELSE (IF Len(s) + k > 0 THEN Len(s) + k ELSE 0)

\* s[:k] and s[k:]
slice_to(s, k) == SubSeq(s, 1, SliceIndex(s, k))
slice_from(s, k) == SubSeq(s, SliceIndex(s, k) + 1, Len(s))

\* count * " "
Spaces(count) == [i \in 1..count |-> " "]

\* The text added to the left column for an Argument with a metavar.
MetavarRendering(inst) ==
    IF inst.type = "Argument" /\ truthy(inst.metavar)
    THEN IF inst.indefinite
         THEN <<" ", " ", "<">> \o inst.metavar \o <<"1", ">", " ", "<">>
              \o inst.metavar \o <<"2", ">", " ", ".", ".", ".", " ", "<">>
              \o inst.metavar \o <<"n", ">">>
         ELSE <<" ", "<">> \o inst.metavar \o <<">">>
    ELSE <<>>

\* left_column before the loop: long_name, s_name and the metavar.
LeftColumn(inst) ==
    inst.long_name
    \o (IF truthy(inst.short_name) THEN <<",", " ">> \o inst.short_name ELSE <<>>)
    \o MetavarRendering(inst)

\* A left column that is written without its padding.
LeftChunk_NoPadding(left_column, left_width) ==
    IF Len(left_column) <= left_width THEN left_column
    ELSE slice_to(left_column, left_width)

\* What one pass writes for the left column, and what it leaves of it.
LeftChunk(left_column, left_width) ==
    IF Len(left_column) <= left_width
    THEN left_column \o Spaces(left_width - Len(left_column))
    ELSE slice_to(left_column, left_width)

LeftRest(left_column, left_width) ==
    IF Len(left_column) <= left_width THEN <<>>
    ELSE slice_from(left_column, left_width)

\* What one pass writes for the right column, and what it leaves of it.
RightChunk(right_column, right_width) ==
    IF Len(right_column) <= right_width THEN right_column
    ELSE slice_to(right_column, right_width)

RightRest(right_column, right_width) ==
    IF Len(right_column) <= right_width THEN <<>>
    ELSE slice_from(right_column, right_width)

\* The number of lines of a help string.
LineCount(help_str) == Cardinality({i \in DOMAIN help_str : help_str[i] = "\n"})

\* gen_help(inst, left_width, right_width), on a terminal of the given
\* number of columns: the statements before the loop.
gen_help(inst, left_width, right_width, columns) ==
    /\ help.status = "idle"
    /\ help' = [status |-> "formatting", inst |-> inst,
                given |-> <<left_width, right_width>>,
                left_width |-> LeftWidth(left_width, columns),
                right_width |-> RightWidth(right_width, columns,
                                           LeftWidth(left_width, columns)),
                left_column |-> LeftColumn(inst),
                right_column |-> inst.description,
                help_str |-> <<>>]
    /\ UNCHANGED <<options, regVars, parseVars>>

\* One pass of `while left_column != "" or right_column != ""`.
gen_help_pass ==
    /\ help.status = "formatting"
    /\ help.left_column # <<>> \/ help.right_column # <<>>
    /\ LineCount(help.help_str) < MaxLines
    /\ help' = [help EXCEPT
                  !.help_str = help.help_str
                               \o LeftChunk(help.left_column, help.left_width)
                               \o <<" ", " ">>
                               \o RightChunk(help.right_column, help.right_width)
                               \o <<"\n">>,
                  !.left_column = LeftRest(help.left_column, help.left_width),
                  !.right_column = RightRest(help.right_column, help.right_width)]
    /\ UNCHANGED <<options, regVars, parseVars>>

\* Both columns are empty: return help_str.
gen_help_return ==
    /\ help.status = "formatting"
    /\ help.left_column = <<>> /\ help.right_column = <<>>
    /\ help' = [help EXCEPT !.status = "returned"]
    /\ UNCHANGED <<options, regVars, parseVars>>

----------------------------------------------------------------------------
(* The registration specification: the four registration methods called    *)
(* with well-formed and ill-formed names, in strict and non-strict mode.    *)

\* long_name arguments: empty, well-styled (with an inner hyphen), hyphens
\* only, no `--` prefix, a special character.  The specs below name a second
\* well-styled long name, --c.
RegLongNames ==
    {<<>>, <<"-", "-", "a", "-", "b">>, <<"-", "-">>, <<"a", "b">>,
     <<"-", "-", "a", "$">>}

\* short_name arguments: absent, empty, well-styled, no `-` prefix (and equal
\* to a long name), two characters after the `-`, a special character.
RegShortNames ==
    {None, <<>>, <<"-", "a">>, <<"a", "b">>, <<"-", "a", "b">>, <<"-", "$">>}

\* default arguments: absent.
RegDefaults == {None}

RegDescription == <<"d">>

\* spec arguments of add_arg and flag.
RegSpecs ==
    {<<"-", "-", "c", " ", "[", "d", "]">>,
     <<"-", "-", "c", " ", "-", "a", " ", "[", "d", "]", ",", " ", "m", ",", " ", "t", "r", "u", "e", ",", " ", "x">>,
     <<"a", "b", " ", "-", "a", "b", " ", "[", "\\", "[", "d", "\\", "]", "]">>,
     <<"-", "-", "c", "[", "d", "]">>,
     <<"-", "-", "a", "-", "b", " ", "-", "a", " ", "[", "d", "]", ",", " ", "T", "r", "u", "e">>}

InitOptions ==
    options \in [strict_mode : BOOLEAN, allow_unknown_args : BOOLEAN]

InitParser ==
    /\ registry = <<>>
    /\ required_args = <<>>
    /\ call = NoCall
    /\ args = <<>>
    /\ n = 0
    /\ tree = <<>>
    /\ flag_bound = FALSE
    /\ status = "idle"
    /\ raised = "none"
    /\ help = NoHelp

Init == InitOptions /\ InitParser

RegAddArgument ==
    /\ Idle
    /\ \E long_name \in RegLongNames, short_name \in RegShortNames,
       default \in RegDefaults :
        add_argument(long_name, RegDescription, "dest", short_name, None, FALSE,
                     default)

RegAddFlag ==
    /\ Idle
    /\ \E long_name \in RegLongNames, short_name \in RegShortNames :
        add_flag(long_name, RegDescription, "dest", short_name)

RegAddArg == Idle /\ \E spec \in RegSpecs : add_arg(spec, "dest")

RegFlag == Idle /\ \E spec \in RegSpecs : flag(spec, "dest")

\* Control is back in the host program: the result or exception of the call
\* has been taken, and the locals of a finished parse are gone.
Return ==
    /\ status # "scanning"
    /\ ~Idle
    /\ call' = NoCall
    /\ args' = <<>>
    /\ n' = 0
    /\ tree' = <<>>
    /\ flag_bound' = FALSE
    /\ status' = "idle"
    /\ raised' = "none"
    /\ UNCHANGED <<options, registry, required_args, help>>

NextReg == RegAddArgument \/ RegAddFlag \/ RegAddArg \/ RegFlag \/ Return

SpecReg == Init /\ [][NextReg]_vars

----------------------------------------------------------------------------
(* The parsing specification: an Argument --f/-f and a Flag --v/-v are     *)
(* registered in any order, the Argument with every combination of         *)
(* indefinite and default, and parse is called, any number of times, on    *)
(* token lists over their names, plain values and `<name>=<value>` tokens. *)

ArgLong == <<"-", "-", "f">>
ArgShort == <<"-", "f">>
FlagLong == <<"-", "-", "v">>
FlagShort == <<"-", "v">>

\* default arguments: absent, the empty str, a non-empty str.
ParseDefaults == {None, <<>>, <<"x">>}

\* spec arguments of add_arg and flag.
ParseArgSpecs == {<<"-", "-", "f", " ", "-", "f", " ", "[", "d", "]">>, <<"-", "-", "f", " ", "-", "f", " ", "[", "d", "]", ",", " ", "m", ",", " ", "t", "r", "u", "e", ",", " ", "x">>, <<"-", "-", "f", " ", "-", "f", " ", "[", "d", "]", ",", " ", "t", "r", "u", "e", ",", " ", "x">>}
ParseFlagSpecs == {<<"-", "-", "v", " ", "-", "v", " ", "[", "d", "]">>}

\* The tokens: the two long names, a plain value, the empty str, and
\* `<name>=<value>` tokens with one and with two `=`.
ParseTokens ==
    {ArgLong, FlagLong, <<"x">>, <<>>, <<"-", "-", "f", "=", "x">>, <<"-", "-", "f", "=", "x", "=", "y">>, <<"-", "-", "v", "=", "x">>}

TokenLists(tokens) == UNION {[1..k -> tokens] : k \in 0..MaxTokens}

ParseAddArgument ==
    /\ Idle
    /\ \E indefinite \in BOOLEAN, default \in ParseDefaults :
        add_argument(ArgLong, RegDescription, "file", ArgShort, None, indefinite,
                     default)

ParseAddFlag == add_flag(FlagLong, RegDescription, "verbose", FlagShort)

ParseAddArg == Idle /\ \E spec \in ParseArgSpecs : add_arg(spec, "file")

ParseFlag == Idle /\ \E spec \in ParseFlagSpecs : flag(spec, "verbose")

ParseCall == Idle /\ \E tokens \in TokenLists(ParseTokens) : parse(tokens)

NextParse ==
    \/ ParseAddArgument
    \/ ParseAddFlag
    \/ ParseAddArg
    \/ ParseFlag
    \/ ParseCall
    \/ parse_iteration
    \/ parse_return
    \/ Return

SpecParse == Init /\ [][NextParse]_vars

----------------------------------------------------------------------------
(* The cluster specification: the Argument --f/-f and the Flags --v/-v and  *)
(* --q/-q are registered in any order, and parse is called, any number of   *)
(* times, on token lists over clusters of their short names, a cluster with *)
(* an unregistered character, and a plain token.                            *)

QuietLong == <<"-", "-", "q">>
QuietShort == <<"-", "q">>

\* default arguments: absent, a non-empty str.
ClusterDefaults == {None, <<"x">>}

\* The tokens: two Flags; a Flag, then the Argument; the Argument, then a
\* Flag; the Argument twice; a Flag, then an unregistered character; a plain
\* token.
ClusterTokens ==
    {<<"-", "v", "q">>, <<"-", "v", "f">>, <<"-", "f", "v">>, <<"-", "f", "f">>, <<"-", "v", "u">>, <<"x">>}

ClusterAddArgument ==
    /\ Idle
    /\ \E indefinite \in BOOLEAN, default \in ClusterDefaults :
        add_argument(ArgLong, RegDescription, "file", ArgShort, None, indefinite,
                     default)

ClusterAddQuiet == add_flag(QuietLong, RegDescription, "quiet", QuietShort)

ClusterCall == Idle /\ \E tokens \in TokenLists(ClusterTokens) : parse(tokens)

NextCluster ==
    \/ ClusterAddArgument
    \/ ParseAddFlag
    \/ ClusterAddQuiet
    \/ ClusterCall
    \/ parse_iteration
    \/ parse_return
    \/ Return

SpecCluster == Init /\ [][NextCluster]_vars

----------------------------------------------------------------------------
(* The scan specification: the Argument --f/-f and the Flag --v/-v are     *)
(* registered in any order, parse is called on token lists that take each  *)
(* branch of the scan, and a call that has begun runs on: parse is         *)
(* synchronous, so its loop goes from pass to pass until it is left.       *)

\* The tokens: the two long names, a plain value and a cluster.
ScanTokens == {ArgLong, FlagLong, <<"x">>, <<"-", "v", "f">>}

ScanAddArgument ==
    /\ Idle
    /\ \E indefinite \in BOOLEAN :
        add_argument(ArgLong, RegDescription, "file", ArgShort, None, indefinite,
                     None)

ScanCall == Idle /\ \E tokens \in TokenLists(ScanTokens) : parse(tokens)

NextScan ==
    \/ ScanAddArgument
    \/ ParseAddFlag
    \/ ScanCall
    \/ parse_iteration
    \/ parse_return
    \/ Return

SpecScan ==
    /\ Init
    /\ [][NextScan]_vars
    /\ WF_vars(parse_iteration)
    /\ WF_vars(parse_return)

----------------------------------------------------------------------------
(* The help specification: gen_help is called, any number of times, on     *)
(* Arguments and Flags with and without a short name and a metavar, with   *)
(* widths that are integers, fractions, zero (the width is then taken from *)
(* the terminal) and negative.                                              *)

\* The options: a Flag; Arguments with no short name, with a metavar, and
\* indefinite with a metavar.
HelpOptions(description) ==
    {Flag(FlagLong, description, "verbose", FlagShort),
     Argument(ArgLong, description, "file", None, None, TRUE, FALSE, None),
     Argument(ArgLong, description, "file", ArgShort, <<"m">>, TRUE, FALSE, None),
     Argument(ArgLong, description, "file", None, <<"m">>, FALSE, TRUE, <<"x">>)}

\* description arguments: empty, one character, words.
HelpDescriptions == {<<>>, <<"d">>, <<"a", "b", " ", "c", "d", " ", "e">>}

\* Width arguments, in tenths: -1, 0, 0.4, 1, 2, 2.5, 3.5, 12.4.
HelpWidths == {-10, 0, 4, 10, 20, 25, 35, 124}

\* The columns of the terminal.
HelpColumns == {10, 20}

HelpCall ==
    /\ help.status = "idle"
    /\ \E description \in HelpDescriptions, left_width \in HelpWidths,
          right_width \in HelpWidths, columns \in HelpColumns :
        \E inst \in HelpOptions(description) :
            gen_help(inst, left_width, right_width, columns)

\* The host program has taken the help string.
HelpTaken ==
    /\ help.status = "returned"
    /\ help' = NoHelp
    /\ UNCHANGED <<options, regVars, parseVars>>

NextHelp == HelpCall \/ gen_help_pass \/ gen_help_return \/ HelpTaken

SpecHelp == Init /\ [][NextHelp]_vars

----------------------------------------------------------------------------
(* The claims about registration. *)

\* A step that is a call of add_argument or add_flag, made directly or
\* through add_arg or flag, whose spec (if any) was accepted.
RegistrationStep ==
    /\ call.op = "none"
    /\ call'.op \in {"add_argument", "add_flag", "add_arg", "flag"}
    /\ call'.err # "Exception"

\* A step that is a direct call of add_argument or add_flag.
DirectStep ==
    /\ call.op = "none"
    /\ call'.op \in {"add_argument", "add_flag"}

\* Only alphanumeric characters and hyphens.
AlnumOrHyphen(s) == \A i \in DOMAIN s : s[i] \in AlnumChar \cup {"-"}
HasAlnum(s) == \E i \in DOMAIN s : s[i] \in AlnumChar

\* C1, as stated: a registration whose long_name is a key of the registry
\* fails with InvalidLongName; one with a fresh long_name whose short_name is
\* a key of the registry fails with InvalidShortName.
C1_Original ==
    [][RegistrationStep =>
        /\ call'.long_name \in DOMAIN registry
            => call'.err = "InvalidLongName"
        /\ (call'.long_name \notin DOMAIN registry
            /\ call'.short_name \in DOMAIN registry)
            => call'.err = "InvalidShortName"]_vars

\* C1, amended: the same for every registration whose long_name is not empty
\* and whose short_name is not the empty string (such a call fails with
\* ValueError before the redundancy checks).
C1_Redundancy ==
    [][(RegistrationStep /\ call'.long_name # <<>> /\ call'.short_name # <<>>) =>
        /\ call'.long_name \in DOMAIN registry
            => call'.err = "InvalidLongName"
        /\ (call'.long_name \notin DOMAIN registry
            /\ call'.short_name \in DOMAIN registry)
            => call'.err = "InvalidShortName"]_vars

\* C1's case: in non-strict mode a long_name that is the short name of an
\* earlier option has been refused as redundant.
C1_Witness ==
    /\ ~options.strict_mode
    /\ call.err = "InvalidLongName"
    /\ \E o \in Registered(registry) :
        o.short_name = call.long_name /\ o.long_name # call.long_name

\* C2: every long_name of the registry belongs to exactly one option, every
\* short_name belongs to exactly one option, and no string is both the
\* short_name of an option and the long_name of an option (the same one
\* included).
C2_UniqueNames ==
    \A o1, o2 \in Registered(registry) :
        /\ o1.long_name = o2.long_name => o1 = o2
        /\ (truthy(o1.short_name) /\ o1.short_name = o2.short_name) => o1 = o2
        /\ truthy(o1.short_name) => o1.short_name # o2.long_name

\* C3: a registration call that fails leaves the registry and the
\* outstanding-required list as they were.
C3_Atomic ==
    [][(call.op = "none" /\ call'.op # "none" /\ call'.err # "ok") =>
        (registry' = registry /\ required_args' = required_args)]_vars

\* C3's case: in strict mode, with options registered, a call whose names
\* are not redundant has failed on the style of its short name, the last of
\* the checks.
C3_Witness ==
    /\ options.strict_mode
    /\ registry # <<>>
    /\ call.err = "InvalidShortName"
    /\ call.short_name \notin DOMAIN registry

\* C4, as stated: in strict mode add_argument with no short_name succeeds
\* for every unregistered long_name that starts with `--` and holds only
\* alphanumeric characters and hyphens, and the registry then maps the
\* long_name to the returned Argument.
C4_Original ==
    [][(/\ DirectStep
        /\ call'.op = "add_argument"
        /\ options.strict_mode
        /\ call'.short_name = None
        /\ startswith(call'.long_name, <<"-", "-">>)
        /\ AlnumOrHyphen(call'.long_name)
        /\ call'.long_name \notin DOMAIN registry) =>
        /\ call'.err = "ok"
        /\ call'.long_name \in DOMAIN registry'
        /\ registry'[call'.long_name] = call'.ret[1]]_vars

\* C4, amended: the same for the long names that also hold at least one
\* alphanumeric character (a long_name made of hyphens only is refused with
\* InvalidLongName).
C4_ValidLongName ==
    [][(/\ DirectStep
        /\ call'.op = "add_argument"
        /\ options.strict_mode
        /\ call'.short_name = None
        /\ startswith(call'.long_name, <<"-", "-">>)
        /\ AlnumOrHyphen(call'.long_name)
        /\ HasAlnum(call'.long_name)
        /\ call'.long_name \notin DOMAIN registry) =>
        /\ call'.err = "ok"
        /\ call'.long_name \in DOMAIN registry'
        /\ registry'[call'.long_name] = call'.ret[1]]_vars

\* C4's case: in strict mode add_argument has registered, with no short
\* name, a long name with a hyphen after the prefix.
C4_Witness ==
    /\ options.strict_mode
    /\ call.op = "add_argument"
    /\ call.err = "ok"
    /\ call.short_name = None
    /\ \E i \in 3..Len(call.long_name) : call.long_name[i] = "-"
    /\ registry[call.long_name] = call.ret[1]

\* The long names that pass the strict-mode style checks.
WellStyledLong(s) ==
    startswith(s, <<"-", "-">>) /\ AlnumOrHyphen(s) /\ HasAlnum(s)

\* The short names that break a strict-mode style rule.
IllStyledShort(s) ==
    \/ ~startswith(s, <<"-">>)
    \/ Len(s) # 2
    \/ s[2] \notin AlnumChar

\* C5, as stated: in strict mode add_argument and add_flag refuse with
\* InvalidLongName a non-empty, unregistered long_name that lacks the `--`
\* prefix or holds a character other than alphanumerics and hyphens, and
\* refuse with InvalidShortName, the long_name being valid and unregistered,
\* an unregistered non-empty short_name that breaks a style rule.
C5_Original ==
    [][(DirectStep /\ options.strict_mode /\ call'.long_name # <<>>
        /\ call'.long_name \notin DOMAIN registry) =>
        /\ (~startswith(call'.long_name, <<"-", "-">>)
            \/ ~AlnumOrHyphen(call'.long_name))
            => call'.err = "InvalidLongName"
        /\ (/\ WellStyledLong(call'.long_name)
            /\ truthy(call'.short_name)
            /\ call'.short_name \notin DOMAIN registry
            /\ IllStyledShort(call'.short_name))
            => call'.err = "InvalidShortName"]_vars

\* C5, amended: the first part holds when the short_name is absent, or is
\* non-empty and unregistered (an empty short_name fails with ValueError, a
\* registered one with InvalidShortName, before the style of the long_name
\* is looked at).
C5_Style ==
    [][(DirectStep /\ options.strict_mode /\ call'.long_name # <<>>
        /\ call'.long_name \notin DOMAIN registry) =>
        /\ (/\ \/ ~startswith(call'.long_name, <<"-", "-">>)
               \/ ~AlnumOrHyphen(call'.long_name)
            /\ \/ call'.short_name = None
               \/ (truthy(call'.short_name)
                   /\ call'.short_name \notin DOMAIN registry))
            => call'.err = "InvalidLongName"
        /\ (/\ WellStyledLong(call'.long_name)
            /\ truthy(call'.short_name)
            /\ call'.short_name \notin DOMAIN registry
            /\ IllStyledShort(call'.short_name))
            => call'.err = "InvalidShortName"]_vars

\* C5's case: in strict mode a call with a well-styled, unregistered long
\* name has been refused for a short name with two characters after the `-`.
C5_Witness ==
    /\ options.strict_mode
    /\ call.op \in {"add_argument", "add_flag"}
    /\ call.err = "InvalidShortName"
    /\ WellStyledLong(call.long_name)
    /\ call.long_name \notin DOMAIN registry
    /\ call.short_name \notin DOMAIN registry
    /\ startswith(call.short_name, <<"-">>)
    /\ Len(call.short_name) = 3

\* C6: add_argument and add_flag fail with ValueError when long_name is the
\* empty string or short_name is given as the empty string, whatever else is
\* wrong with the call.
C6_EmptyName ==
    (/\ call.op \in {"add_argument", "add_flag"}
     /\ (call.long_name = <<>> \/ call.short_name = <<>>))
        => call.err = "ValueError"

\* C6's case: a call with an empty short_name and a long_name that is
\* already registered has failed with ValueError.
C6_Witness ==
    /\ call.op \in {"add_argument", "add_flag"}
    /\ call.short_name = <<>>
    /\ call.long_name \in DOMAIN registry
    /\ call.err = "ValueError"

\* C7: the Argument that add_argument returns (called directly or through
\* add_arg) is required exactly when no default was given, and is on the
\* outstanding-required list exactly when it is required; no registered
\* Argument is required and holds a default.
C7_Required ==
    /\ (call.op \in {"add_argument", "add_arg"} /\ call.err = "ok") =>
        /\ call.ret[1].required <=> call.default = None
        /\ call.ret[1].value = call.default
        /\ InList(required_args, call.ret[1]) <=> call.ret[1].required
    /\ \A o \in Registered(registry) :
        o.type = "Argument" => ~(o.required /\ o.value # None)

\* C7's case: add_argument has been given the empty string as default and
\* has returned an optional Argument that is not on the list.
C7_Witness ==
    /\ call.op = "add_argument"
    /\ call.err = "ok"
    /\ call.default = <<>>
    /\ ~call.ret[1].required
    /\ ~InList(required_args, call.ret[1])

----------------------------------------------------------------------------
(* The claims about parse. *)

\* The scan loop is about to run a pass on the token at the cursor.
Scanning == status = "scanning" /\ n < Len(args)
Cursor == args[n + 1]

\* The token at the cursor is a name of a registered Argument.
AtArgument ==
    /\ Scanning
    /\ Cursor \in DOMAIN registry
    /\ registry[Cursor].type = "Argument"

\* The pass has ended without a rejection or an exception, with value under
\* dest in the tree and the cursor at index next (0-based).
Resolved(dest, value, next) ==
    /\ status' = "scanning"
    /\ dest \in DOMAIN tree'
    /\ tree'[dest] = value
    /\ n' = next

\* C8: when the token at the cursor is a name of an indefinite Argument,
\* parse maps the Argument's dest to the list of the following tokens up to
\* the first that is a registered name, and resumes the scan at that token.
\* (The case of no following token to collect is C9's.)
C8_Indefinite ==
    [][(/\ AtArgument
        /\ registry[Cursor].indefinite
        /\ Collect(registry, args, n + 2) # <<>>) =>
        Resolved(registry[Cursor].dest,
                 ListValue(Collect(registry, args, n + 2)),
                 n + 1 + Len(Collect(registry, args, n + 2)))]_vars

\* C9: when the token at the cursor is a name of an Argument, parse rejects
\* with MissingValue if no legal value follows (an indefinite Argument that
\* collects no token; a non-indefinite one whose following token is missing
\* or starts with `-`); otherwise the non-indefinite Argument's dest is
\* mapped to the following token.
C9_MissingValue ==
    [][AtArgument =>
        IF registry[Cursor].indefinite
        THEN Collect(registry, args, n + 2) = <<>>
                => (status' = "raised" /\ raised' = "MissingValue")
        ELSE IF n + 2 > Len(args) \/ startswith(args[n + 2], <<"-">>)
        THEN status' = "raised" /\ raised' = "MissingValue"
        ELSE Resolved(registry[Cursor].dest, StrValue(args[n + 2]), n + 2)]_vars

\* The <name> and the <value> of a token <name>=<value>: the word
\* characters, hyphens and underscores before its first `=`, and all that
\* follows that `=`.
NameOf(token) == SubSeq(token, 1, Run(token, 1, MetavarChar))
ValueOf(token) == SubSeq(token, Run(token, 1, MetavarChar) + 2, Len(token))
IsNameValue(token) ==
    /\ NameOf(token) # <<>>
    /\ At(token, Len(NameOf(token)) + 1, <<"=">>)
    /\ ValueOf(token) # <<>>

\* C10: a token <name>=<value> that is not a registered name and whose
\* <name> is one maps that option's dest to the str <value>, whatever the
\* option, and only that token is consumed.
C10_NameValue ==
    [][(/\ Scanning
        /\ Cursor \notin DOMAIN registry
        /\ IsNameValue(Cursor)
        /\ NameOf(Cursor) \in DOMAIN registry) =>
        Resolved(registry[NameOf(Cursor)].dest, StrValue(ValueOf(Cursor)),
                 n + 1)]_vars

----------------------------------------------------------------------------
(* The claims about clusters. *)

\* The option registered under the short name `-c`.
IsShort(c) == <<"-", c>> \in DOMAIN registry
ShortOption(c) == registry[<<"-", c>>]
IsFlagChar(c) == IsShort(c) /\ ShortOption(c).type = "Flag"
IsArgumentChar(c) == IsShort(c) /\ ShortOption(c).type = "Argument"

\* In strict mode the token at the cursor is a cluster `-c1c2...ck`, k >= 2,
\* that is not itself a registered name.
AtCluster ==
    /\ Scanning
    /\ options.strict_mode
    /\ Cursor \notin DOMAIN registry
    /\ Len(Cursor) >= 3
    /\ Cursor[1] = "-"
    /\ \A i \in 2..Len(Cursor) : Cursor[i] \in WordChar

LastChar == Cursor[Len(Cursor)]

\* A token follows the cursor, is not empty and does not start with `-`.
ValueFollows ==
    /\ n + 2 <= Len(args)
    /\ args[n + 2] # <<>>
    /\ ~startswith(args[n + 2], <<"-">>)

\* C11: in strict mode, for a cluster whose characters before the last are
\* short names of Flags and whose last character is a Flag, or a
\* non-indefinite Argument followed by a legal value, parse maps every Flag's
\* dest to True and the Argument's dest to the following token, which it
\* consumes.
C11_Cluster ==
    [][(/\ AtCluster
        /\ \A i \in 2..(Len(Cursor) - 1) : IsFlagChar(Cursor[i])
        /\ \/ IsFlagChar(LastChar)
           \/ (/\ IsArgumentChar(LastChar)
               /\ ~ShortOption(LastChar).indefinite
               /\ ValueFollows)) =>
        /\ status' = "scanning"
        /\ \A i \in 2..Len(Cursor) :
            IsFlagChar(Cursor[i]) =>
                /\ ShortOption(Cursor[i]).dest \in DOMAIN tree'
                /\ tree'[ShortOption(Cursor[i]).dest] = TrueValue
        /\ IF IsArgumentChar(LastChar)
           THEN /\ ShortOption(LastChar).dest \in DOMAIN tree'
                /\ tree'[ShortOption(LastChar).dest] = StrValue(args[n + 2])
                /\ n' = n + 2
           ELSE n' = n + 1]_vars

\* C12: in strict mode, when a character of a cluster other than the last is
\* the short name of an Argument, and the characters before it are Flags,
\* parse rejects with MisplacedArgumentInCluster and the Argument is not
\* resolved (it stays on the outstanding-required list).
C12_Misplaced ==
    [][(/\ AtCluster
        /\ \E i \in 2..(Len(Cursor) - 1) :
            /\ IsArgumentChar(Cursor[i])
            /\ \A j \in 2..(i - 1) : IsFlagChar(Cursor[j])) =>
        /\ status' = "raised"
        /\ raised' = "MisplacedArgumentInCluster"
        /\ required_args' = required_args]_vars

----------------------------------------------------------------------------
(* The claims about unknown tokens and about the outcome of parse. *)

\* The cluster form: `-` followed by one or more word characters.
ClusterForm(token) ==
    /\ Len(token) >= 2
    /\ token[1] = "-"
    /\ \A i \in 2..Len(token) : token[i] \in WordChar

\* The token at the cursor matches none of the three forms parse resolves.
AtUnknown ==
    /\ Scanning
    /\ Cursor \notin DOMAIN registry
    /\ ~IsNameValue(Cursor)
    /\ ~(options.strict_mode /\ ClusterForm(Cursor))

Rejected(reason) == status' = "raised" /\ raised' = reason

\* C13: a token that is no registered name, no <name>=<value> and (in strict
\* mode) no cluster is rejected with UnrecognizedOption when
\* allow_unknown_args is false, and skipped when it is true; an unregistered
\* character of a cluster, after Flags only, is rejected with
\* UnrecognizedOption when allow_unknown_args is false.
C13_Unrecognized ==
    [][/\ AtUnknown =>
            IF options.allow_unknown_args
            THEN status' = "scanning" /\ n' = n + 1 /\ tree' = tree
            ELSE Rejected("UnrecognizedOption")
       /\ (/\ AtCluster
           /\ ~options.allow_unknown_args
           /\ \E i \in 2..Len(Cursor) :
               /\ ~IsShort(Cursor[i])
               /\ \A j \in 2..(i - 1) : IsFlagChar(Cursor[j]))
            => Rejected("UnrecognizedOption")]_vars

\* The token resolves a registered option: it is a registered name, a
\* <name>=<value> with a registered <name>, or (in strict mode) a cluster of
\* registered short names.
Resolves(token) ==
    \/ token \in DOMAIN registry
    \/ (IsNameValue(token) /\ NameOf(token) \in DOMAIN registry)
    \/ (/\ options.strict_mode
        /\ ClusterForm(token)
        /\ \A i \in 2..Len(token) : IsShort(token[i]))

\* The token names an Argument, which takes the tokens after it as values.
NamesArgument(token) ==
    \/ (token \in DOMAIN registry /\ registry[token].type = "Argument")
    \/ (/\ options.strict_mode
        /\ ClusterForm(token)
        /\ \E i \in 2..Len(token) : IsArgumentChar(token[i]))

\* C14: with allow_unknown_args false, in every call of parse that returns,
\* each token of the list resolves a registered option or comes after a
\* token that names an Argument (only such a token can have been consumed as
\* a value).
C14_NoSilentSkip ==
    (status = "returned" /\ ~options.allow_unknown_args) =>
        \A i \in DOMAIN args :
            \/ Resolves(args[i])
            \/ \E j \in 1..(i - 1) : NamesArgument(args[j])

\* C15: in the mapping parse returns, the dest of every registered Flag that
\* was resolved (and shares its dest with no other option) holds True.
C15_FlagTrue ==
    status = "returned" =>
        \A o \in Registered(registry) :
            (/\ o.type = "Flag"
             /\ o.dest \in DOMAIN tree
             /\ \A other \in Registered(registry) : other.dest = o.dest => other = o)
                => tree[o.dest] = TrueValue

\* A name of the option occurs in the token list: as a token, as the <name>
\* of a <name>=<value> token, or as a character of a cluster.
Occurs(o, tokens) ==
    \E i \in DOMAIN tokens :
        \/ tokens[i] \in {o.long_name, o.short_name}
        \/ (IsNameValue(tokens[i]) /\ NameOf(tokens[i]) \in {o.long_name, o.short_name})
        \/ (/\ ClusterForm(tokens[i])
            /\ truthy(o.short_name) /\ Len(o.short_name) = 2
            /\ \E k \in 2..Len(tokens[i]) : tokens[i][k] = o.short_name[2])

\* C16: the mapping parse returns holds, for every Argument registered with
\* a default none of whose names occurs in the token list, the Argument's
\* dest mapped to the default.
C16_Default ==
    status = "returned" =>
        \A o \in Registered(registry) :
            (o.type = "Argument" /\ o.value # None /\ ~Occurs(o, args)) =>
                /\ o.dest \in DOMAIN tree
                /\ tree[o.dest] = StrValue(o.value)

\* C17: a call of parse that does not return the mapping ends through
\* reject, with one of its three reasons, and never in another failure.
C17_Outcome ==
    status = "raised" => raised \in Rejections

\* C18: when a call of parse has ended, the same call made again at once
\* ends the same way: with the same mapping, or with the same rejection.
C18_NoCarriedState ==
    status \in {"returned", "raised"} =>
        LET again == RunParse(options, registry, args, EnterParse(required_args))
        IN  /\ again.raised = raised
            /\ raised = "none" => again.tree = tree

----------------------------------------------------------------------------
(* The claims about the spec strings. *)

\* s is <long-name>[ <short-name>] [<description>] with a names of a
\* characters and, if b > 0, a short name of b characters: the names are
\* made of letters, digits, hyphens and underscores, the description is not
\* empty and the bracket that closes it is the last character of s and is
\* not escaped.
HasHeadForm(s, a, b) ==
    LET open == a + (IF b = 0 THEN 0 ELSE b + 1) + 2
    IN  /\ open + 2 <= Len(s)
        /\ s[Len(s)] = "]"
        /\ s[Len(s) - 1] # "\\"
        /\ s[open] = "["
        /\ s[open - 1] = " "
        /\ \A i \in 1..a : s[i] \in NameChar
        /\ b > 0 => (s[a + 1] = " " /\ \A i \in (a + 2)..(a + 1 + b) : s[i] \in NameChar)

\* The readings of s as <long-name>[ <short-name>] [<description>].
HeadParts(s) ==
    {[long |-> SubSeq(s, 1, ab[1]),
      short |-> IF ab[2] = 0 THEN None ELSE SubSeq(s, ab[1] + 2, ab[1] + 1 + ab[2]),
      text |-> SubSeq(s, ab[1] + (IF ab[2] = 0 THEN 0 ELSE ab[2] + 1) + 3, Len(s) - 1)] :
        ab \in {x \in (1..Len(s)) \X (0..Len(s)) : HasHeadForm(s, x[1], x[2])}}

\* The text with every escaped bracket replaced by the bracket, read in one
\* pass from left to right.
RECURSIVE Unescaped(_)
Unescaped(text) ==
    IF text = <<>> THEN <<>>
    ELSE IF Len(text) >= 2 /\ text[1] = "\\" /\ text[2] \in {"[", "]"}
        THEN <<text[2]>> \o Unescaped(SubSeq(text, 3, Len(text)))
    ELSE <<text[1]>> \o Unescaped(Tail(text))

\* C19: add_arg and flag, given a spec <long-name>[ <short-name>]
\* [<description>], accept it and register under the given names (the short
\* name None when omitted) an option whose description is the bracketed text
\* without the enclosing brackets and with its escaped brackets unescaped;
\* the Argument of add_arg is required, not indefinite, and has no value.
C19_SpecRoundTrip ==
    [][(call.op = "none" /\ call'.op \in {"add_arg", "flag"}) =>
        \A p \in HeadParts(call'.spec) :
            /\ call'.err # "Exception"
            /\ call'.long_name = p.long
            /\ call'.short_name = p.short
            /\ call'.err = "ok" =>
                /\ call'.ret[1].long_name = p.long
                /\ call'.ret[1].short_name = p.short
                /\ call'.ret[1].description = Unescaped(p.text)
                /\ registry'[p.long] = call'.ret[1]
                /\ call'.op = "add_arg" =>
                    /\ call'.ret[1].required
                    /\ ~call'.ret[1].indefinite
                    /\ call'.ret[1].value = None]_vars

\* C19's case: a spec with a short name and escaped brackets in its
\* description has been registered, and the description of the option holds
\* the brackets and no backslash.
C19_Witness ==
    /\ call.op \in {"add_arg", "flag"}
    /\ call.err = "ok"
    /\ \E i \in DOMAIN call.spec : call.spec[i] = "\\"
    /\ call.ret[1].short_name # None
    /\ call.ret[1].description = <<"[", "d", "]">>

\* The readings of s as <long-name> <short-name> [<description>],
\* <indefinite>, <default>: the indefinite field is made of letters and the
\* default text, which holds no comma, runs to the end of s.
TwoFieldParts(s) ==
    {[indefinite |-> SubSeq(s, ek[1] + 3, ek[1] + 2 + ek[2]),
      default |-> SubSeq(s, ek[1] + 5 + ek[2], Len(s))] :
        ek \in {x \in (1..Len(s)) \X (1..Len(s)) :
                 /\ x[1] + 5 + x[2] <= Len(s)
                 /\ \E p \in HeadParts(SubSeq(s, 1, x[1])) : p.short # None
                 /\ At(s, x[1] + 1, <<",", " ">>)
                 /\ \A i \in (x[1] + 3)..(x[1] + 2 + x[2]) : s[i] \in LetterChar
                 /\ At(s, x[1] + 3 + x[2], <<",", " ">>)
                 /\ \A i \in (x[1] + 5 + x[2])..Len(s) : s[i] # ","}}

\* C20: add_arg, given a spec <long-name> <short-name> [<description>],
\* <indefinite>, <default>, registers an Argument whose value is the default
\* text, that is not required, and whose indefinite is the boolean reading
\* of the indefinite field.
C20_TwoFields ==
    [][(call.op = "none" /\ call'.op = "add_arg") =>
        \A p \in TwoFieldParts(call'.spec) :
            /\ call'.err # "Exception"
            /\ call'.err = "ok" =>
                /\ call'.ret[1].value = p.default
                /\ ~call'.ret[1].required
                /\ call'.ret[1].indefinite = IsTrueText(p.indefinite)]_vars

\* The texts that s, read as <long-name>[ <short-name>] [<description>]
\* [, <metavar>][, <indefinite>[, <default>]], can have as its <indefinite>
\* field: x is <<e, v, k>>, the index of the bracket that closes the
\* description, the length of the metavar (0 when omitted) and the length
\* of the field, which is made of letters and is followed by the end of s or
\* by `, ` and a default.
IndefiniteFields(s) ==
    {SubSeq(s, x[1] + (IF x[2] = 0 THEN 0 ELSE x[2] + 2) + 3,
               x[1] + (IF x[2] = 0 THEN 0 ELSE x[2] + 2) + 2 + x[3]) :
        x \in {y \in (1..Len(s)) \X (0..Len(s)) \X (1..Len(s)) :
                 LET q == y[1] + 1 + (IF y[2] = 0 THEN 0 ELSE y[2] + 2)
                     after == q + 2 + y[3]
                 IN  /\ after <= Len(s) + 1
                     /\ HeadParts(SubSeq(s, 1, y[1])) # {}
                     /\ y[2] > 0 =>
                         /\ At(s, y[1] + 1, <<",", " ">>)
                         /\ \A i \in (y[1] + 3)..(y[1] + 2 + y[2]) : s[i] \in MetavarChar
                     /\ At(s, q, <<",", " ">>)
                     /\ \A i \in (q + 2)..(after - 1) : s[i] \in LetterChar
                     /\ \/ after = Len(s) + 1
                        \/ (At(s, after, <<",", " ">>) /\ after + 2 <= Len(s))}}

\* C21: the Argument that add_arg registers is indefinite exactly when the
\* spec has an <indefinite> field that reads "true" in some letter case,
\* whether or not a metavar and a default come with it.
C21_Indefinite ==
    [][(call.op = "none" /\ call'.op = "add_arg" /\ call'.err = "ok") =>
        (call'.ret[1].indefinite <=>
            \E field \in IndefiniteFields(call'.spec) : IsTrueText(field))]_vars

----------------------------------------------------------------------------
(* The claims about gen_help. *)

\* The lines of a help string, each without the newline that ends it.
RECURSIVE HelpLines(_)
HelpLines(text) ==
    LET k == Run(text, 1, {c \in {text[i] : i \in DOMAIN text} : c # "\n"})
    IN  IF text = <<>> THEN <<>>
        ELSE IF k = Len(text) THEN <<text>>
        ELSE <<SubSeq(text, 1, k)>> \o HelpLines(SubSeq(text, k + 2, Len(text)))

\* The concatenation of a sequence of strs.
RECURSIVE Flatten(_)
Flatten(chunks) ==
    IF chunks = <<>> THEN <<>> ELSE Head(chunks) \o Flatten(Tail(chunks))

\* The left content of an option: long_name, `, short_name` if present, and
\* the rendering of the metavar.
LeftContent(inst) ==
    inst.long_name
    \o (IF inst.short_name # None THEN <<",", " ">> \o inst.short_name ELSE <<>>)
    \o MetavarRendering(inst)

\* gen_help has returned from a call with integer widths, both at least 1.
ReturnedWithIntegerWidths ==
    /\ help.status = "returned"
    /\ \A i \in 1..2 : help.given[i] % 10 = 0 /\ help.given[i] >= 10

\* C22: for integer widths of at least 1, the string gen_help returns is a
\* sequence of newline-terminated lines, each made of exactly left_width
\* characters of the left column, two spaces, and at most right_width
\* characters of the description; the left chunks together are the left
\* content followed by spaces only, the right chunks together are the
\* description, cut every right_width characters.
C22_Layout ==
    ReturnedWithIntegerWidths =>
        LET lw == help.left_width
            rw == help.right_width
            lines == HelpLines(help.help_str)
            count == Len(lines)
            lefts == [i \in 1..count |-> SubSeq(lines[i], 1, lw)]
            rights == [i \in 1..count |-> SubSeq(lines[i], lw + 3, Len(lines[i]))]
            content == LeftContent(help.inst)
        IN  /\ lw * 10 = help.given[1] /\ rw * 10 = help.given[2]
            /\ help.help_str # <<>> => help.help_str[Len(help.help_str)] = "\n"
            /\ \A i \in 1..count :
                /\ Len(lines[i]) >= lw + 2
                /\ Len(lines[i]) <= lw + 2 + rw
                /\ lines[i][lw + 1] = " " /\ lines[i][lw + 2] = " "
            /\ count * lw >= Len(content)
            /\ Flatten(lefts) = content \o Spaces(count * lw - Len(content))
            /\ Flatten(rights) = help.inst.description
            /\ \A i \in 1..(count - 1) : Len(rights[i]) = rw \/ rights[i + 1] = <<>>

\* C22's case: with left_width 2 and right_width 1 gen_help has returned
\* the help of an Argument with a metavar and a description of several
\* words, both columns wrapped over several lines.
C22_Witness ==
    /\ ReturnedWithIntegerWidths
    /\ help.given = <<20, 10>>
    /\ help.inst.type = "Argument"
    /\ help.inst.metavar # None
    /\ Len(help.inst.description) > 1
    /\ LineCount(help.help_str) > 5

\* C26: in a call of gen_help with explicit width arguments, each pass of
\* the layout loop makes the two column buffers shorter together: it
\* strictly shortens a buffer that is not empty (and so the loop ends).
C26_Terminates ==
    [][(/\ help.status = "formatting"
        /\ help'.status = "formatting"
        /\ help' # help
        /\ help.given[1] # 0 /\ help.given[2] # 0) =>
        Len(help'.left_column) + Len(help'.right_column)
            < Len(help.left_column) + Len(help.right_column)]_vars

----------------------------------------------------------------------------
(* The claims about the scan of parse and about the order of the checks. *)

\* C23: while parse scans, the cursor never decreases and every pass of the
\* loop that goes on to another moves it forward by at least one; every
\* call of parse leaves the loop.
C23_Terminates ==
    /\ [][status = "scanning" =>
            /\ n' >= n
            /\ status' = "scanning" => n' >= n + 1]_vars
    /\ (status = "scanning") ~> (status # "scanning")

\* C23's case: parse has returned from a list of three tokens after a pass
\* in which an indefinite Argument took two of them as its values.
C23_Witness ==
    /\ status = "returned"
    /\ Len(args) = 3
    /\ n = 3
    /\ \E dest \in DOMAIN tree : tree[dest].type = "list" /\ Len(tree[dest].val) = 2

\* A call that breaks a redundancy rule and a strict-mode style rule.
BreaksRedundancy(reg, long_name, short_name) ==
    long_name \in DOMAIN reg \/ short_name \in DOMAIN reg
BreaksStyle(long_name, short_name) ==
    ~WellStyledLong(long_name) \/ (truthy(short_name) /\ IllStyledShort(short_name))

\* The exception of the redundancy checks: the long name is checked first.
RedundancyError(reg, long_name) ==
    IF long_name \in DOMAIN reg THEN "InvalidLongName" ELSE "InvalidShortName"

\* C24, as stated: in strict mode a call of add_argument or add_flag that
\* breaks both a redundancy rule and a style rule fails with the error of
\* the redundancy rule; an ill-styled long_name with a registered short_name
\* fails with InvalidShortName.
C24_Original ==
    [][(/\ DirectStep
        /\ options.strict_mode
        /\ BreaksRedundancy(registry, call'.long_name, call'.short_name)
        /\ BreaksStyle(call'.long_name, call'.short_name)) =>
        call'.err = RedundancyError(registry, call'.long_name)]_vars

\* C24, amended: the same for the calls whose long_name is not empty and
\* whose short_name is not the empty string (those fail with ValueError
\* before the redundancy checks).
C24_RedundancyFirst ==
    [][(/\ DirectStep
        /\ options.strict_mode
        /\ call'.long_name # <<>>
        /\ call'.short_name # <<>>
        /\ BreaksRedundancy(registry, call'.long_name, call'.short_name)
        /\ BreaksStyle(call'.long_name, call'.short_name)) =>
        call'.err = RedundancyError(registry, call'.long_name)]_vars

\* C24's case: in strict mode a call with an ill-styled, unregistered,
\* non-empty long_name and an already registered short_name has failed with
\* InvalidShortName.
C24_Witness ==
    /\ options.strict_mode
    /\ call.op \in {"add_argument", "add_flag"}
    /\ call.long_name # <<>>
    /\ ~WellStyledLong(call.long_name)
    /\ call.long_name \notin DOMAIN registry
    /\ call.short_name \in DOMAIN registry
    /\ call.err = "InvalidShortName"

\* The options of the outstanding-required list.
Outstanding(req) == {req[i] : i \in DOMAIN req}

\* The registered required Arguments whose dest the mapping does not hold:
\* those the call has not resolved (in the specifications here no other
\* option shares an Argument's dest).
Unresolved(reg, mapping) ==
    {o \in Registered(reg) :
        o.type = "Argument" /\ o.required /\ o.dest \notin DOMAIN mapping}

\* C25: a step of parse leaves the registry and the configuration as they
\* are and takes nothing but resolved Arguments off the outstanding-required
\* list, and when parse returns the list holds exactly the registered
\* required Arguments that the call did not resolve.
C25_Frame ==
    [][status = "scanning" =>
        /\ registry' = registry
        /\ options' = options
        /\ Outstanding(required_args') \subseteq Outstanding(required_args)
        /\ \A o \in Outstanding(required_args) \ Outstanding(required_args') :
                o.dest \in DOMAIN tree'
        /\ status' = "returned" =>
                Outstanding(required_args') = Unresolved(registry, tree')]_vars

====
